---- MODULE Spec2Model ----
(* Schedule reconciliation commands of resticprofile (commands_schedule.go):  *)
(* createSchedule, removeSchedule, statusSchedule and the helpers they call.  *)
EXTENDS Integers, Sequences, FiniteSets, TLC

\* ---------------------------------------------------------------- bounds
MaxNames == 2
MaxCommands == 3
MaxListLen == 2
MaxCalls == 2

NameUniverse == <<"alpha", "beta", "gamma", "delta">>
CommandUniverse == <<"backup", "check", "prune", "copy", "forget">>

Names == {NameUniverse[i] : i \in 1..MaxNames}
Commands == SubSeq(CommandUniverse, 1, MaxCommands)

Range(s) == {s[i] : i \in 1..Len(s)}
Reverse(s) == [i \in 1..Len(s) |-> s[Len(s) + 1 - i]]
BoundedSeq(S, n) == UNION {[1..k -> S] : k \in 0..n}
\* every order in which iterating a Go map with key set S can yield its keys
Orderings(S) ==
    {s \in [1..Cardinality(S) -> S] : \A i, j \in 1..Cardinality(S) : i # j => s[i] # s[j]}

\* ---------------------------------------------------------------- state
VARIABLES
    profileNames,   \* c.GetProfileNames()
    groupNames,     \* c.GetGroupNames()
    defs,           \* name -> what loading the profile/group of that name gives
    globalOk,       \* whether c.GetGlobalSection() succeeds
    command,        \* which command function runs
    args,           \* ctx.request.arguments
    requested,      \* ctx.request.profile
    pc,             \* position in the running command
    selected,       \* the list being ranged over (selectProfilesAndGroups' result)
    idx,            \* index of the current loop iteration
    allJobs,        \* createSchedule's allJobs
    calls,          \* handler operations and elevation retries, in call order
    sink,           \* clog messages, in order
    loaded,         \* c.GetProfile / c.GetProfileGroup calls, in order
    result,         \* the command's returned error
    removeSets,     \* results of successive getRemovableScheduleJobs calls
    ctx,            \* the *Context preRunSchedule works on
    ctx0            \* that context as it was when preRunSchedule was entered

vars == <<profileNames, groupNames, defs, globalOk, command, args, requested, pc,
          selected, idx, allJobs, calls, sink, loaded, result, removeSets, ctx, ctx0>>

configVars == <<profileNames, groupNames, defs, globalOk, command, args, requested>>

\* ---------------------------------------------------------------- errors
Nil == [type |-> "nil", name |-> ""]
NotReturned == [type |-> "running", name |-> ""]
Err(t, n) == [type |-> t, name |-> n]

legacyFlagWarning == "the --legacy flag is only temporary"

\* ---------------------------------------------------------------- config package
ScheduleOrigin(name, cmd) == [name |-> name, command |-> cmd]

\* a schedule read from the configuration
DeclaredSchedule(name, cmd, flags) ==
    [origin |-> ScheduleOrigin(name, cmd), flags |-> flags, declared |-> TRUE]

\* config.NewDefaultSchedule: a schedule holding only its origin and defaults
NewDefaultSchedule(origin) ==
    [origin |-> origin, flags |-> {}, declared |-> FALSE]

\* Schedule.SetFlag(key, ""): flags are kept as the set of their keys
SetFlag(s, key) == [s EXCEPT !.flags = @ \cup {key}]

HasProfile(name) == \E i \in 1..Len(profileNames) : profileNames[i] = name
HasProfileGroup(name) == \E i \in 1..Len(groupNames) : groupNames[i] = name

\* orders in which maps.Values may yield the declared schedules of name
MapOrders(name) == Orderings(DOMAIN defs[name].schedules)

\* ---------------------------------------------------------------- helpers
\* faulty variant: groups are listed before profiles
selectGroupsFirst(profileName, arguments) ==
    LET schedulables == IF "--all" \in arguments
                        THEN groupNames \o profileNames
                        ELSE <<>>
    IN  IF Len(schedulables) = 0 THEN <<profileName>> ELSE schedulables

selectProfilesAndGroups(profileName, arguments) ==
    LET schedulables == IF "--all" \in arguments
                        THEN profileNames \o groupNames
                        ELSE <<>>
    IN  IF Len(schedulables) = 0 THEN <<profileName>> ELSE schedulables

Failed(e, ld) ==
    [err |-> e, schedules |-> <<>>, kind |-> "", commands |-> <<>>, loads |-> ld]

getProfileScheduleJobs(profileName, order) ==
    LET d == defs[profileName]
        ld == <<[kind |-> "profile", name |-> profileName]>>
    IN  IF d.load = "notfound" THEN Failed(Err("NotFound", profileName), ld)
        ELSE IF d.load # "ok" THEN Failed(Err("LoadError", profileName), ld)
        ELSE [err |-> Nil,
              schedules |-> [i \in 1..Len(order) |-> d.schedules[order[i]]],
              kind |-> "profile", commands |-> d.commands, loads |-> ld]

getGroupScheduleJobs(profileName, order) ==
    LET d == defs[profileName]
        ld == <<[kind |-> "group", name |-> profileName]>>
    IN  IF d.load = "notfound" THEN Failed(Err("GroupNotFound", profileName), ld)
        ELSE IF d.load # "ok" THEN Failed(Err("LoadError", profileName), ld)
        ELSE [err |-> Nil,
              schedules |-> [i \in 1..Len(order) |-> d.schedules[order[i]]],
              kind |-> "group", commands |-> d.commands, loads |-> ld]

\* faulty variant: the groups are looked up before the profiles
getScheduleJobsGroupsFirst(profileName, order) ==
    IF ~globalOk THEN Failed(Err("ConfigError", ""), <<>>)
    ELSE IF HasProfileGroup(profileName) THEN getGroupScheduleJobs(profileName, order)
    ELSE IF HasProfile(profileName) THEN getProfileScheduleJobs(profileName, order)
    ELSE Failed(Err("NotFound", profileName), <<>>)

getScheduleJobs(profileName, order) ==
    IF ~globalOk THEN Failed(Err("ConfigError", ""), <<>>)
    ELSE IF HasProfile(profileName) THEN getProfileScheduleJobs(profileName, order)
    ELSE IF HasProfileGroup(profileName) THEN getGroupScheduleJobs(profileName, order)
    ELSE Failed(Err("NotFound", profileName), <<>>)

requireScheduleJobs(schedules, profileName) ==
    IF Len(schedules) = 0 THEN Err("NoScheduleFound", profileName) ELSE Nil

\* faulty variant: every schedulable command gets a placeholder, declared or not
RECURSIVE addUndeclaredNoCheck(_, _, _, _)
addUndeclaredNoCheck(schedules, cmds, i, profileName) ==
    IF i > Len(cmds) THEN schedules
    ELSE addUndeclaredNoCheck(
             Append(schedules, NewDefaultSchedule(ScheduleOrigin(profileName, cmds[i]))),
             cmds, i + 1, profileName)

\* faulty variant: only the first schedule of the list is compared with the command
RECURSIVE addUndeclaredFirstOnly(_, _, _, _)
addUndeclaredFirstOnly(schedules, cmds, i, profileName) ==
    IF i > Len(cmds) THEN schedules
    ELSE LET isDeclared == Len(schedules) > 0 /\ schedules[1].origin.command = cmds[i]
         IN  addUndeclaredFirstOnly(
                 IF isDeclared THEN schedules
                 ELSE Append(schedules,
                             NewDefaultSchedule(ScheduleOrigin(profileName, cmds[i]))),
                 cmds, i + 1, profileName)

RECURSIVE addUndeclared(_, _, _, _)
addUndeclared(schedules, cmds, i, profileName) ==
    IF i > Len(cmds) THEN schedules
    ELSE LET isDeclared == \E k \in 1..Len(schedules) :
                               schedules[k].origin.command = cmds[i]
         IN  addUndeclared(
                 IF isDeclared THEN schedules
                 ELSE Append(schedules,
                             NewDefaultSchedule(ScheduleOrigin(profileName, cmds[i]))),
                 cmds, i + 1, profileName)

getRemovableScheduleJobs(profileName, order) ==
    LET r == getScheduleJobs(profileName, order)
    IN  IF r.err # Nil THEN r
        ELSE [r EXCEPT !.schedules = addUndeclared(r.schedules, r.commands, 1, profileName)]

\* createSchedule lines 53-63: the command-line flags set on every job
setFlagAll(jobs, key) == [i \in 1..Len(jobs) |-> SetFlag(jobs[i], key)]

\* faulty variant: the second test reads "--no-start" again
applyCreateFlagsSameOption(jobs, arguments) ==
    LET j1 == IF "--no-start" \in arguments THEN setFlagAll(jobs, "no-start") ELSE jobs
    IN  IF "--no-start" \in arguments THEN setFlagAll(j1, "reload") ELSE j1

applyCreateFlags(jobs, arguments) ==
    LET j1 == IF "--no-start" \in arguments THEN setFlagAll(jobs, "no-start") ELSE jobs
    IN  IF "--reload" \in arguments THEN setFlagAll(j1, "reload") ELSE j1

\* ---------------------------------------------------------------- collaborators
\* outcome of one handler operation on behalf of name
HandlerOutcomes(name) == {Nil, Err("PermissionError", name), Err("HandlerError", name)}

\* retryElevated(err, flags): the possible results
retryElevated(err) ==
    IF err.type = "PermissionError" THEN {Nil, err} ELSE {err}

HandlerCall(op, name, jobs, out) ==
    [op |-> op, name |-> name, jobs |-> jobs, out |-> out]
RetryCall(name, out) ==
    [op |-> "retryElevated", name |-> name, jobs |-> <<>>, out |-> out]

\* faulty variant: a retry that fails is retried once more
attemptRetriesTwice(op, name, jobs) ==
    {[calls |-> <<HandlerCall(op, name, jobs, Nil)>>, first |-> Nil, err |-> Nil]}
    \cup
    {[calls |-> <<HandlerCall(op, name, jobs, out), RetryCall(name, again)>>
                   \o (IF again # Nil THEN <<RetryCall(name, again)>> ELSE <<>>),
      first |-> out, err |-> again] :
        <<out, again>> \in {p \in HandlerOutcomes(name) \X HandlerOutcomes(name) :
                               p[1] # Nil /\ p[2] \in retryElevated(p[1])}}

\* err := op(handler, ...); if err != nil { err = retryElevated(err, flags) }
\* first is the handler's own outcome, err the outcome after the retry
attempt(op, name, jobs) ==
    {[calls |-> <<HandlerCall(op, name, jobs, Nil)>>, first |-> Nil, err |-> Nil]}
    \cup
    {[calls |-> <<HandlerCall(op, name, jobs, out), RetryCall(name, again)>>,
      first |-> out, err |-> again] :
        <<out, again>> \in {p \in HandlerOutcomes(name) \X HandlerOutcomes(name) :
                               p[1] # Nil /\ p[2] \in retryElevated(p[1])}}

LogError(e) == [level |-> "error", msg |-> "", err |-> e]
LogNote(level, msg) == [level |-> level, msg |-> msg, err |-> Nil]

\* ---------------------------------------------------------------- createSchedule
\* faulty variant: the --all skip also swallows resolution errors
createResolveSkipsAnyError(profileName, order, arguments) ==
    LET r == getScheduleJobs(profileName, order)
        e == IF r.err = Nil THEN requireScheduleJobs(r.schedules, profileName) ELSE r.err
    IN  [r |-> r, err |-> e,
         skip |-> e # Nil /\ "--all" \in arguments]

\* faulty variant: the --all skip is missing
createResolveNeverSkips(profileName, order, arguments) ==
    LET r == getScheduleJobs(profileName, order)
        e == IF r.err = Nil THEN requireScheduleJobs(r.schedules, profileName) ELSE r.err
    IN  [r |-> r, err |-> e, skip |-> FALSE]

\* faulty variant: create resolves a name with the builder of the remove path
createResolveRemovable(profileName, order, arguments) ==
    LET r == getRemovableScheduleJobs(profileName, order)
        e == IF r.err = Nil THEN requireScheduleJobs(r.schedules, profileName) ELSE r.err
    IN  [r |-> r, err |-> e,
         skip |-> r.err = Nil /\ e # Nil /\ "--all" \in arguments]

\* lines 40-51: resolve one selected name; skip tells the loop to continue
createResolve(profileName, order, arguments) ==
    LET r == getScheduleJobs(profileName, order)
        e == IF r.err = Nil THEN requireScheduleJobs(r.schedules, profileName) ELSE r.err
    IN  [r |-> r, err |-> e,
         skip |-> r.err = Nil /\ e # Nil /\ "--all" \in arguments]

createScheduleEnter ==
    /\ pc = "start" /\ command = "create"
    /\ selected' = selectProfilesAndGroups(requested, args)
    /\ idx' = 1
    /\ pc' = "create_collect"
    /\ UNCHANGED <<configVars, ctx, ctx0, allJobs, calls, sink, loaded, result, removeSets>>

\* one iteration of the loop of step 1 (lines 39-66)
createCollect ==
    /\ pc = "create_collect" /\ idx <= Len(selected)
    /\ \E order \in MapOrders(selected[idx]) :
         LET profileName == selected[idx]
             res == createResolve(profileName, order, args)
         IN  /\ loaded' = loaded \o res.r.loads
             /\ IF res.skip
                THEN idx' = idx + 1 /\ UNCHANGED <<pc, result, allJobs>>
                ELSE IF res.err # Nil
                THEN pc' = "done" /\ result' = res.err /\ UNCHANGED <<idx, allJobs>>
                ELSE /\ allJobs' = Append(allJobs,
                            [name |-> profileName,
                             jobs |-> applyCreateFlags(res.r.schedules, args)])
                     /\ idx' = idx + 1
                     /\ UNCHANGED <<pc, result>>
    /\ UNCHANGED <<configVars, ctx, ctx0, selected, calls, sink, removeSets>>

createCollectDone ==
    /\ pc = "create_collect" /\ idx > Len(selected)
    /\ pc' = "create_dispatch"
    /\ idx' = 1
    /\ UNCHANGED <<configVars, ctx, ctx0, selected, allJobs, calls, sink, loaded, result, removeSets>>

\* one iteration of the loop of step 2 (lines 69-74)
createDispatch ==
    /\ pc = "create_dispatch" /\ idx <= Len(allJobs)
    /\ \E a \in attempt("createJobs", allJobs[idx].name, allJobs[idx].jobs) :
         /\ calls' = calls \o a.calls
         /\ IF a.first = Nil
            THEN idx' = idx + 1 /\ UNCHANGED <<pc, result>>
            ELSE pc' = "done" /\ result' = a.err /\ UNCHANGED idx
    /\ UNCHANGED <<configVars, ctx, ctx0, selected, allJobs, sink, loaded, removeSets>>

createReturn ==
    /\ pc = "create_dispatch" /\ idx > Len(allJobs)
    /\ pc' = "done"
    /\ result' = Nil
    /\ UNCHANGED <<configVars, ctx, ctx0, selected, idx, allJobs, calls, sink, loaded, removeSets>>

\* ---------------------------------------------------------------- removeSchedule
\* faulty variant: --all does not clear the filter
profileFilterKeepsName(profileName, arguments) == profileName

\* lines 106-110 and 163-167: the profile filter of the current protocol
profileFilter(profileName, arguments) ==
    IF "--all" \in arguments THEN "" ELSE profileName

removeScheduleEnter ==
    /\ pc = "start" /\ command = "remove"
    /\ IF "--legacy" \in args
       THEN /\ sink' = Append(sink, LogNote("warning", legacyFlagWarning))
            /\ selected' = selectProfilesAndGroups(requested, args)
            /\ idx' = 1
            /\ pc' = "remove_legacy"
       ELSE /\ pc' = "remove_current"
            /\ UNCHANGED <<sink, selected, idx>>
    /\ UNCHANGED <<configVars, ctx, ctx0, allJobs, calls, loaded, result, removeSets>>

\* faulty variant: a removal still failing after its retry is returned
removeLegacyStepReturnsError ==
    /\ pc = "remove_legacy" /\ idx <= Len(selected)
    /\ \E order \in MapOrders(selected[idx]) :
         LET profileName == selected[idx]
             r == getRemovableScheduleJobs(profileName, order)
         IN  /\ loaded' = loaded \o r.loads
             /\ IF r.err # Nil
                THEN pc' = "done" /\ result' = r.err /\ UNCHANGED <<idx, calls, sink>>
                ELSE \E a \in attempt("removeJobs", profileName, r.schedules) :
                       /\ calls' = calls \o a.calls
                       /\ IF a.err # Nil
                          THEN pc' = "done" /\ result' = a.err /\ UNCHANGED <<idx, sink>>
                          ELSE idx' = idx + 1 /\ UNCHANGED <<pc, result, sink>>
    /\ UNCHANGED <<configVars, ctx, ctx0, selected, allJobs, removeSets>>

\* faulty variant: the legacy branch falls through to the current protocol
removeLegacyReturnFallsThrough ==
    /\ pc = "remove_legacy" /\ idx > Len(selected)
    /\ pc' = "remove_current"
    /\ UNCHANGED <<configVars, ctx, ctx0, selected, idx, allJobs, calls, sink, loaded, result, removeSets>>

\* faulty variant: a name that fails to resolve is logged and the loop goes on
removeLegacyStepSkipsUnresolved ==
    /\ pc = "remove_legacy" /\ idx <= Len(selected)
    /\ \E order \in MapOrders(selected[idx]) :
         LET profileName == selected[idx]
             r == getRemovableScheduleJobs(profileName, order)
         IN  /\ loaded' = loaded \o r.loads
             /\ IF r.err # Nil
                THEN /\ sink' = Append(sink, LogError(r.err))
                     /\ idx' = idx + 1
                     /\ UNCHANGED <<pc, result, calls>>
                ELSE \E a \in attempt("removeJobs", profileName, r.schedules) :
                       /\ calls' = calls \o a.calls
                       /\ sink' = IF a.err # Nil THEN Append(sink, LogError(a.err)) ELSE sink
                       /\ idx' = idx + 1
                       /\ UNCHANGED <<pc, result>>
    /\ UNCHANGED <<configVars, ctx, ctx0, selected, allJobs, removeSets>>

\* one iteration of the legacy loop (lines 88-102)
removeLegacyStep ==
    /\ pc = "remove_legacy" /\ idx <= Len(selected)
    /\ \E order \in MapOrders(selected[idx]) :
         LET profileName == selected[idx]
             r == getRemovableScheduleJobs(profileName, order)
         IN  /\ loaded' = loaded \o r.loads
             /\ IF r.err # Nil
                THEN pc' = "done" /\ result' = r.err /\ UNCHANGED <<idx, calls, sink>>
                ELSE \E a \in attempt("removeJobs", profileName, r.schedules) :
                       /\ calls' = calls \o a.calls
                       /\ sink' = IF a.err # Nil THEN Append(sink, LogError(a.err)) ELSE sink
                       /\ idx' = idx + 1
                       /\ UNCHANGED <<pc, result>>
    /\ UNCHANGED <<configVars, ctx, ctx0, selected, allJobs, removeSets>>

\* line 103
removeLegacyReturn ==
    /\ pc = "remove_legacy" /\ idx > Len(selected)
    /\ pc' = "done"
    /\ result' = Nil
    /\ UNCHANGED <<configVars, ctx, ctx0, selected, idx, allJobs, calls, sink, loaded, removeSets>>

\* lines 106-116
removeCurrent ==
    /\ pc = "remove_current"
    /\ \E a \in attempt("removeAllRecorded", profileFilter(requested, args), <<>>) :
         /\ calls' = calls \o a.calls
         /\ result' = a.err
    /\ pc' = "done"
    /\ UNCHANGED <<configVars, ctx, ctx0, selected, idx, allJobs, sink, loaded, removeSets>>

\* ---------------------------------------------------------------- statusSchedule
statusScheduleEnter ==
    /\ pc = "start" /\ command = "status"
    /\ IF "--legacy" \in args
       THEN /\ sink' = Append(sink, LogNote("warning", legacyFlagWarning))
            /\ IF "--all" \notin args
               THEN pc' = "status_single" /\ UNCHANGED <<selected, idx>>
               ELSE /\ selected' = selectProfilesAndGroups(requested, args)
                    /\ idx' = 1
                    /\ pc' = "status_all"
       ELSE /\ pc' = "status_current"
            /\ UNCHANGED <<sink, selected, idx>>
    /\ UNCHANGED <<configVars, ctx, ctx0, allJobs, calls, loaded, result, removeSets>>

\* statusScheduleProfileOrGroup (lines 195-201)
statusScheduleProfileOrGroup(schedules, profileName) ==
    attempt("reportStatus", profileName, schedules)

\* faulty variant: the single-target branch goes on to the current protocol
statusLegacySingleFallsThrough ==
    /\ pc = "status_single"
    /\ \E order \in MapOrders(requested) :
         LET r == getScheduleJobs(requested, order)
         IN  /\ loaded' = loaded \o r.loads
             /\ IF r.err # Nil
                THEN pc' = "done" /\ result' = r.err /\ UNCHANGED <<calls, sink>>
                ELSE IF Len(r.schedules) = 0
                THEN /\ sink' = Append(sink, LogNote("warning", "has no schedule"))
                     /\ pc' = "status_current"
                     /\ UNCHANGED <<calls, result>>
                ELSE \E a \in statusScheduleProfileOrGroup(r.schedules, requested) :
                       /\ calls' = calls \o a.calls
                       /\ IF a.err # Nil
                          THEN pc' = "done" /\ result' = a.err
                          ELSE pc' = "status_current" /\ UNCHANGED result
                       /\ UNCHANGED sink
    /\ UNCHANGED <<configVars, ctx, ctx0, selected, idx, allJobs, removeSets>>

\* legacy, single profile or group (lines 129-143)
statusLegacySingle ==
    /\ pc = "status_single"
    /\ \E order \in MapOrders(requested) :
         LET r == getScheduleJobs(requested, order)
         IN  /\ loaded' = loaded \o r.loads
             /\ IF r.err # Nil
                THEN result' = r.err /\ UNCHANGED <<calls, sink>>
                ELSE IF Len(r.schedules) = 0
                THEN /\ sink' = Append(sink, LogNote("warning", "has no schedule"))
                     /\ result' = Nil
                     /\ UNCHANGED calls
                ELSE \E a \in statusScheduleProfileOrGroup(r.schedules, requested) :
                       /\ calls' = calls \o a.calls
                       /\ result' = a.err
                       /\ UNCHANGED sink
    /\ pc' = "done"
    /\ UNCHANGED <<configVars, ctx, ctx0, selected, idx, allJobs, removeSets>>

\* faulty variant: a report still failing after its retry is returned
statusLegacyAllStepReturnsError ==
    /\ pc = "status_all" /\ idx <= Len(selected)
    /\ \E order \in MapOrders(selected[idx]) :
         LET profileName == selected[idx]
             r == getScheduleJobs(profileName, order)
         IN  /\ loaded' = loaded \o r.loads
             /\ IF r.err # Nil
                THEN pc' = "done" /\ result' = r.err /\ UNCHANGED <<idx, calls, sink>>
                ELSE IF Len(r.schedules) = 0
                THEN idx' = idx + 1 /\ UNCHANGED <<pc, result, calls, sink>>
                ELSE \E a \in statusScheduleProfileOrGroup(r.schedules, profileName) :
                       /\ calls' = calls \o a.calls
                       /\ sink' = Append(sink, LogNote("info", r.kind))
                       /\ IF a.err # Nil
                          THEN pc' = "done" /\ result' = a.err /\ UNCHANGED idx
                          ELSE idx' = idx + 1 /\ UNCHANGED <<pc, result>>
    /\ UNCHANGED <<configVars, ctx, ctx0, selected, allJobs, removeSets>>

\* legacy, all profiles and groups: one iteration (lines 146-161)
statusLegacyAllStep ==
    /\ pc = "status_all" /\ idx <= Len(selected)
    /\ \E order \in MapOrders(selected[idx]) :
         LET profileName == selected[idx]
             r == getScheduleJobs(profileName, order)
         IN  /\ loaded' = loaded \o r.loads
             /\ IF r.err # Nil
                THEN pc' = "done" /\ result' = r.err /\ UNCHANGED <<idx, calls, sink>>
                ELSE IF Len(r.schedules) = 0
                THEN idx' = idx + 1 /\ UNCHANGED <<pc, result, calls, sink>>
                ELSE \E a \in statusScheduleProfileOrGroup(r.schedules, profileName) :
                       /\ calls' = calls \o a.calls
                       /\ sink' = Append(sink, LogNote("info", r.kind)) \o
                                  (IF a.err # Nil THEN <<LogError(a.err)>> ELSE <<>>)
                       /\ idx' = idx + 1
                       /\ UNCHANGED <<pc, result>>
    /\ UNCHANGED <<configVars, ctx, ctx0, selected, allJobs, removeSets>>

\* the loop of line 146 is over: control reaches line 163
statusLegacyAllDone ==
    /\ pc = "status_all" /\ idx > Len(selected)
    /\ pc' = "status_current"
    /\ UNCHANGED <<configVars, ctx, ctx0, selected, idx, allJobs, calls, sink, loaded, result, removeSets>>

\* lines 163-173
statusCurrent ==
    /\ pc = "status_current"
    /\ \E a \in attempt("reportAllRecorded", profileFilter(requested, args), <<>>) :
         /\ calls' = calls \o a.calls
         /\ result' = a.err
    /\ pc' = "done"
    /\ UNCHANGED <<configVars, ctx, ctx0, selected, idx, allJobs, sink, loaded, removeSets>>

\* ---------------------------------------------------------------- configurations
\* what a name can be in a configuration: nothing, a profile or a group with
\* 0, 1 or 2 declared schedules, a profile that fails to load, or (PG1) the name
\* of both a profile and a group
OwnerShapes == {"none", "P0", "P1", "P2", "Pbad", "G0", "G1", "PG1"}
ProfileShapes == {"P0", "P1", "P2", "Pbad", "PG1"}
GroupShapes == {"G0", "G1", "PG1"}

ScheduleMap(name, shape) ==
    IF shape \in {"P1", "G1", "PG1"}
    THEN [c \in {Commands[1]} |-> DeclaredSchedule(name, c, {})]
    ELSE IF shape = "P2"
    THEN [c \in {Commands[1], Commands[2]} |->
             DeclaredSchedule(name, c, IF c = Commands[1] THEN {"custom"} ELSE {})]
    ELSE [c \in {} |-> DeclaredSchedule(name, c, {})]

OwnerDef(name, shape) ==
    [load |-> IF shape = "Pbad" THEN "loaderr" ELSE "ok",
     schedules |-> ScheduleMap(name, shape),
     commands |-> Commands]

NamesIn(S) == SelectSeq(SubSeq(NameUniverse, 1, MaxNames), LAMBDA n : n \in S)

\* the options each command reads
CommandArgs(cmd) ==
    IF cmd = "create" THEN SUBSET {"--all", "--no-start", "--reload"}
    ELSE SUBSET {"--all", "--legacy"}

\* the commands other than run-schedule never touch a run context
IdleContext == [arguments |-> <<>>]
NoContext == ctx = IdleContext /\ ctx0 = IdleContext

RunInit ==
    /\ pc = "start"
    /\ selected = <<>>
    /\ idx = 0
    /\ allJobs = <<>>
    /\ calls = <<>>
    /\ sink = <<>>
    /\ loaded = <<>>
    /\ result = NotReturned
    /\ removeSets = <<>>

Init ==
    /\ \E shape \in [Names -> OwnerShapes] :
         /\ defs = [n \in Names |-> OwnerDef(n, shape[n])]
         /\ profileNames = NamesIn({n \in Names : shape[n] \in ProfileShapes})
         /\ groupNames = NamesIn({n \in Names : shape[n] \in GroupShapes})
    /\ globalOk \in BOOLEAN
    /\ command \in {"create", "remove", "status"}
    /\ args \in CommandArgs(command)
    /\ requested \in Names
    /\ RunInit
    /\ NoContext

Next ==
    \/ createScheduleEnter
    \/ createCollect
    \/ createCollectDone
    \/ createDispatch
    \/ createReturn
    \/ removeScheduleEnter
    \/ removeLegacyStep
    \/ removeLegacyReturn
    \/ removeCurrent
    \/ statusScheduleEnter
    \/ statusLegacySingle
    \/ statusLegacyAllStep
    \/ statusLegacyAllDone
    \/ statusCurrent

Spec == Init /\ [][Next]_vars

\* ---------------------------------------------------------------- the helpers alone
\* selectProfilesAndGroups applied to arbitrary name lists
callSelect ==
    /\ pc = "start" /\ command = "select"
    /\ selected' = selectProfilesAndGroups(requested, args)
    /\ pc' = "done"
    /\ UNCHANGED <<configVars, ctx, ctx0, idx, allJobs, calls, sink, loaded, result, removeSets>>

\* getRemovableScheduleJobs applied again to the same, unchanged configuration
callGetRemovable ==
    /\ pc = "start" /\ command = "build"
    /\ Len(removeSets) < MaxCalls
    /\ \E order \in MapOrders(requested) :
         LET r == getRemovableScheduleJobs(requested, order)
         IN  /\ removeSets' = Append(removeSets, r)
             /\ loaded' = loaded \o r.loads
    /\ UNCHANGED <<configVars, ctx, ctx0, pc, selected, idx, allJobs, calls, sink, result>>

\* the lists SchedulableCommands() may return: prefixes of Commands, and Commands reversed
CommandLists == {SubSeq(Commands, 1, k) : k \in 0..MaxCommands} \cup {Reverse(Commands)}

InitSelect ==
    /\ command = "select"
    /\ profileNames \in BoundedSeq(Names, MaxListLen)
    /\ groupNames \in BoundedSeq(Names, MaxListLen)
    /\ requested \in Names
    /\ args \in SUBSET {"--all"}
    /\ defs = [n \in Names |-> OwnerDef(n, "none")]
    /\ globalOk = TRUE
    /\ RunInit
    /\ NoContext

InitBuild ==
    /\ command = "build"
    /\ requested = NameUniverse[1]
    /\ args = {}
    /\ \E kind \in {"profile", "group", "none"} :
         /\ profileNames = IF kind = "profile" THEN <<requested>> ELSE <<>>
         /\ groupNames = IF kind = "group" THEN <<requested>> ELSE <<>>
    /\ \E D \in SUBSET Range(Commands), cl \in CommandLists, ld \in {"ok", "loaderr"} :
         /\ ld = "loaderr" => D = {} /\ cl = Commands
         /\ defs = [n \in Names |->
                      IF n = requested
                      THEN [load |-> ld,
                            schedules |-> [c \in D |-> DeclaredSchedule(n, c, {})],
                            commands |-> cl]
                      ELSE OwnerDef(n, "none")]
    /\ globalOk \in BOOLEAN
    /\ RunInit
    /\ NoContext

InitPure == InitSelect \/ InitBuild

NextPure ==
    \/ callSelect
    \/ callGetRemovable

SpecPure == InitPure /\ [][NextPure]_vars

\* ---------------------------------------------------------------- preRunSchedule
MaxTokenLen == 5

\* a text is the sequence of its pieces; the separator "@" is a piece of its own
TokenAtoms == {Commands[1], "@", NameUniverse[1], NameUniverse[2]}

RECURSIVE Text(_)
Text(pieces) == IF Len(pieces) = 0 THEN "" ELSE pieces[1] \o Text(Tail(pieces))

\* faulty variant: the text is split around the last "@"
CutLast(text) ==
    LET at == {i \in 1..Len(text) : text[i] = "@"}
    IN  IF at = {} THEN [before |-> text, after |-> <<>>, found |-> FALSE]
        ELSE LET k == CHOOSE i \in at : \A j \in at : i >= j
             IN  [before |-> SubSeq(text, 1, k - 1),
                  after |-> SubSeq(text, k + 1, Len(text)),
                  found |-> TRUE]

\* strings.Cut(text, "@"): split around the first "@"
Cut(text) ==
    LET at == {i \in 1..Len(text) : text[i] = "@"}
    IN  IF at = {} THEN [before |-> text, after |-> <<>>, found |-> FALSE]
        ELSE LET k == CHOOSE i \in at : \A j \in at : i <= j
             IN  [before |-> SubSeq(text, 1, k - 1),
                  after |-> SubSeq(text, k + 1, Len(text)),
                  found |-> TRUE]

\* ctx.schedule when no schedule was found (nil)
NoSchedule == [declared |-> FALSE]

\* the settings of a schedule that prepareScheduledProfile reads
ScheduleSettings ==
    [log : {"", "job.log"},
     commandOutput : {"", "file"},
     ignoreOnBatteryLessThan : {0, 20},
     ignoreOnBattery : {"true", "false", "unset"},
     lockMode : {"default", "fail", "ignore"},
     lockWait : {0, 5}]

DefaultSettings ==
    [log |-> "", commandOutput |-> "", ignoreOnBatteryLessThan |-> 0,
     ignoreOnBattery |-> "unset", lockMode |-> "default", lockWait |-> 0]

ConfiguredSchedule(name, cmd, st) ==
    [origin |-> ScheduleOrigin(name, cmd), flags |-> {}, declared |-> TRUE,
     log |-> st.log, commandOutput |-> st.commandOutput,
     ignoreOnBatteryLessThan |-> st.ignoreOnBatteryLessThan,
     ignoreOnBattery |-> st.ignoreOnBattery,
     lockMode |-> st.lockMode, lockWait |-> st.lockWait]

\* a context nothing was set in, and one whose overrides were set beforehand
FreshContext(arguments) ==
    [arguments |-> arguments, profile |-> "default", schedule |-> "", command |-> "run-schedule",
     found |-> NoSchedule, logTarget |-> "", commandOutput |-> "",
     stopOnBattery |-> 0, lockWait |-> 0, noLock |-> FALSE]

PresetContext(arguments) ==
    [arguments |-> arguments, profile |-> "default", schedule |-> "", command |-> "run-schedule",
     found |-> NoSchedule, logTarget |-> "cli.log", commandOutput |-> "console",
     stopOnBattery |-> 50, lockWait |-> 7, noLock |-> TRUE]

\* faulty variant: an explicit true wins over the threshold
batteryPolicyTrueFirst(c, s) ==
    IF s.ignoreOnBattery = "true"
    THEN [c EXCEPT !.stopOnBattery = 100]
    ELSE IF s.ignoreOnBatteryLessThan > 0 /\ s.ignoreOnBattery # "false"
    THEN [c EXCEPT !.stopOnBattery = s.ignoreOnBatteryLessThan]
    ELSE c

\* lines 332-337
batteryPolicy(c, s) ==
    IF s.ignoreOnBatteryLessThan > 0 /\ s.ignoreOnBattery # "false"
    THEN [c EXCEPT !.stopOnBattery = s.ignoreOnBatteryLessThan]
    ELSE IF s.ignoreOnBattery = "true"
    THEN [c EXCEPT !.stopOnBattery = 100]
    ELSE c

\* faulty variant: a configured wait is taken over whatever the lock mode
lockPolicyWaitInAnyMode(c, s) ==
    LET c1 == IF s.lockWait > 0 THEN [c EXCEPT !.lockWait = s.lockWait] ELSE c
    IN  IF s.lockMode = "ignore" THEN [c1 EXCEPT !.noLock = TRUE] ELSE c1

\* lines 338-345
lockPolicy(c, s) ==
    IF s.lockMode = "default"
    THEN IF s.lockWait > 0 THEN [c EXCEPT !.lockWait = s.lockWait] ELSE c
    ELSE IF s.lockMode = "ignore"
    THEN [c EXCEPT !.noLock = TRUE]
    ELSE c

prepareScheduledProfile(c) ==
    LET s == c.found
        c1 == IF Len(s.log) > 0 THEN [c EXCEPT !.logTarget = s.log] ELSE c
        c2 == IF Len(s.commandOutput) > 0
              THEN [c1 EXCEPT !.commandOutput = s.commandOutput] ELSE c1
    IN  lockPolicy(batteryPolicy(c2, s), s)

\* faulty variant: without a schedule for the command, any declared schedule is taken
findScheduleOfAnyCommand(c, d, ld) ==
    IF c.command \in DOMAIN d.schedules
    THEN [ctx |-> prepareScheduledProfile([c EXCEPT !.found = d.schedules[c.command]]),
          err |-> Nil, loads |-> ld]
    ELSE IF DOMAIN d.schedules # {}
    THEN [ctx |-> prepareScheduledProfile(
                     [c EXCEPT !.found = d.schedules[CHOOSE k \in DOMAIN d.schedules : TRUE]]),
          err |-> Nil, loads |-> ld]
    ELSE [ctx |-> [c EXCEPT !.found = NoSchedule], err |-> Nil, loads |-> ld]

\* lines 315-320: find the schedule of the current command
findSchedule(c, d, ld) ==
    IF c.command \in DOMAIN d.schedules
    THEN [ctx |-> prepareScheduledProfile([c EXCEPT !.found = d.schedules[c.command]]),
          err |-> Nil, loads |-> ld]
    ELSE [ctx |-> [c EXCEPT !.found = NoSchedule], err |-> Nil, loads |-> ld]

\* lines 298-314: the profile or group that owns the schedule
loadSchedulable(c, profileName) ==
    IF HasProfile(profileName)
    THEN LET ld == <<[kind |-> "profile", name |-> profileName]>>
         IN  IF defs[profileName].load # "ok"
             THEN [ctx |-> c, err |-> Err("LoadError", profileName), loads |-> ld]
             ELSE findSchedule(c, defs[profileName], ld)
    ELSE IF HasProfileGroup(profileName)
    THEN LET ld == <<[kind |-> "group", name |-> profileName]>>
         IN  IF defs[profileName].load # "ok"
             THEN [ctx |-> c, err |-> Err("LoadError", profileName), loads |-> ld]
             ELSE findSchedule(c, defs[profileName], ld)
    ELSE [ctx |-> c, err |-> Err("NotFound", profileName), loads |-> <<>>]

\* faulty variant: the schedule name is split around its last "@"
parseScheduleNameAtLast(c) ==
    IF Len(c.arguments) < 1
    THEN [ok |-> FALSE, ctx |-> c, err |-> Err("MalformedIdentity", "no argument")]
    ELSE LET scheduleName == c.arguments[1]
             cut == CutLast(scheduleName)
         IN  IF ~cut.found
             THEN [ok |-> FALSE, ctx |-> c, err |-> Err("MalformedIdentity", "no @")]
             ELSE [ok |-> TRUE, err |-> Nil,
                   ctx |-> [c EXCEPT !.profile = Text(cut.after),
                                     !.schedule = Text(scheduleName),
                                     !.command = Text(cut.before),
                                     !.arguments = Tail(@)]]

\* lines 284-296: the schedule name is taken off the arguments and split
parseScheduleName(c) ==
    IF Len(c.arguments) < 1
    THEN [ok |-> FALSE, ctx |-> c, err |-> Err("MalformedIdentity", "no argument")]
    ELSE LET scheduleName == c.arguments[1]
             cut == Cut(scheduleName)
         IN  IF ~cut.found
             THEN [ok |-> FALSE, ctx |-> c, err |-> Err("MalformedIdentity", "no @")]
             ELSE [ok |-> TRUE, err |-> Nil,
                   ctx |-> [c EXCEPT !.profile = Text(cut.after),
                                     !.schedule = Text(scheduleName),
                                     !.command = Text(cut.before),
                                     !.arguments = Tail(@)]]

preRunSchedule ==
    /\ pc = "start" /\ command = "run-schedule"
    /\ LET p == parseScheduleName(ctx)
       IN  IF ~p.ok
           THEN ctx' = p.ctx /\ result' = p.err /\ UNCHANGED loaded
           ELSE LET r == loadSchedulable(p.ctx, p.ctx.profile)
                IN  ctx' = r.ctx /\ result' = r.err /\ loaded' = loaded \o r.loads
    /\ pc' = "done"
    /\ UNCHANGED <<configVars, ctx0, selected, idx, allJobs, calls, sink, removeSets>>

\* getScheduleJobs applied to one name
callGetScheduleJobs ==
    /\ pc = "start" /\ command = "resolve"
    /\ \E order \in MapOrders(requested) :
         LET r == getScheduleJobs(requested, order)
         IN  result' = r.err /\ loaded' = loaded \o r.loads
    /\ pc' = "done"
    /\ UNCHANGED <<configVars, ctx, ctx0, selected, idx, allJobs, calls, sink, removeSets>>

\* what a name can be when a scheduled job fires
RunShapes == {"none", "P1", "G1", "PG1", "Pbad"}

RunOwnerDef(name, shape, cmd, st) ==
    [load |-> IF shape = "Pbad" THEN "loaderr" ELSE "ok",
     schedules |-> IF shape \in {"P1", "G1", "PG1"}
                   THEN [c \in {cmd} |-> ConfiguredSchedule(name, c, st)]
                   ELSE [c \in {} |-> ConfiguredSchedule(name, c, st)],
     commands |-> Commands]

RunStart ==
    /\ pc = "start"
    /\ selected = <<>> /\ idx = 0 /\ allJobs = <<>> /\ calls = <<>> /\ sink = <<>>
    /\ loaded = <<>> /\ result = NotReturned /\ removeSets = <<>>
    /\ args = {} /\ globalOk = TRUE

\* arbitrary argument lists against small configurations
InitRunParse ==
    /\ command = "run-schedule"
    /\ requested = NameUniverse[1]
    /\ \E s1 \in RunShapes, s2 \in RunShapes :
         LET shape == [n \in Names |-> IF n = NameUniverse[1] THEN s1
                                       ELSE IF n = NameUniverse[2] THEN s2 ELSE "none"]
         IN  /\ defs = [n \in Names |-> RunOwnerDef(n, shape[n], Commands[1], DefaultSettings)]
             /\ profileNames = NamesIn({n \in Names : shape[n] \in {"P1", "PG1", "Pbad"}})
             /\ groupNames = NamesIn({n \in Names : shape[n] \in {"G1", "PG1"}})
    /\ \E t \in BoundedSeq(TokenAtoms, MaxTokenLen), k \in 0..2 :
         /\ k = 0 => t = <<>>
         /\ ctx0 = FreshContext(IF k = 0 THEN <<>>
                                ELSE IF k = 1 THEN <<t>>
                                ELSE <<t, <<"--dry-run">>>>)
    /\ ctx = ctx0
    /\ RunStart

\* the token Commands[1]@NameUniverse[1] against every schedule setting
InitRunPolicy ==
    /\ command = "run-schedule"
    /\ requested = NameUniverse[1]
    /\ \E shape \in {"P1", "G1"}, cmd \in {Commands[1], Commands[2]}, st \in ScheduleSettings :
         /\ defs = [n \in Names |->
                      IF n = requested THEN RunOwnerDef(n, shape, cmd, st)
                      ELSE RunOwnerDef(n, "none", cmd, st)]
         /\ profileNames = IF shape = "P1" THEN <<requested>> ELSE <<>>
         /\ groupNames = IF shape = "G1" THEN <<requested>> ELSE <<>>
    /\ ctx0 \in {FreshContext(<<<<Commands[1], "@", requested>>>>),
                 PresetContext(<<<<Commands[1], "@", requested>>>>)}
    /\ ctx = ctx0
    /\ RunStart

\* getScheduleJobs for a name that is a profile, a group, both or neither
InitRunResolve ==
    /\ command = "resolve"
    /\ requested \in Names
    /\ \E shape \in [Names -> RunShapes] :
         /\ defs = [n \in Names |-> RunOwnerDef(n, shape[n], Commands[1], DefaultSettings)]
         /\ profileNames = NamesIn({n \in Names : shape[n] \in {"P1", "PG1", "Pbad"}})
         /\ groupNames = NamesIn({n \in Names : shape[n] \in {"G1", "PG1"}})
    /\ NoContext
    /\ RunStart

InitRun == InitRunParse \/ InitRunPolicy \/ InitRunResolve

NextRun ==
    \/ preRunSchedule
    \/ callGetScheduleJobs

SpecRun == InitRun /\ [][NextRun]_vars

\* ---------------------------------------------------------------- vocabulary of the claims
CallsOf(op) == SelectSeq(calls, LAMBDA c : c.op = op)
NameList(cs) == [i \in 1..Len(cs) |-> cs[i].name]
ErrorsLogged == SelectSeq(sink, LAMBDA m : m.level = "error")
IsKnown(n) == n \in Range(profileNames) \cup Range(groupNames)
Resolves(n) == globalOk /\ IsKnown(n) /\ defs[n].load = "ok"
DeclaredCommands(n) == DOMAIN defs[n].schedules
DeclaredCount(n) == Cardinality(DeclaredCommands(n))
ResolutionError(n) ==
    IF ~globalOk THEN Err("ConfigError", "")
    ELSE IF ~IsKnown(n) THEN Err("NotFound", n)
    ELSE IF defs[n].load # "ok" THEN Err("LoadError", n)
    ELSE Err("NoScheduleFound", n)
FailsCreate(n) == ~Resolves(n) \/ (DeclaredCount(n) = 0 /\ "--all" \notin args)
FirstFailing == CHOOSE i \in 1..Len(selected) :
                    /\ FailsCreate(selected[i])
                    /\ \A k \in 1..(i - 1) : ~FailsCreate(selected[k])

\* C1: in create, when some selected name fails to resolve, the command returns
\* the error of the first such name and createJobs is invoked for no name, not
\* even for the names that resolved before the failing one.
C1_NoDispatchOnResolutionFailure ==
    (command = "create" /\ pc # "start" /\ \E i \in 1..Len(selected) : FailsCreate(selected[i]))
    => /\ CallsOf("createJobs") = <<>>
       /\ pc # "create_dispatch"
       /\ pc = "done" => result = ResolutionError(selected[FirstFailing])

\* a name with jobs resolved first, a later name failed to load, create returned
C1_Witness ==
    /\ command = "create" /\ pc = "done"
    /\ Len(selected) >= 2
    /\ Len(allJobs) >= 1
    /\ allJobs[1].name = selected[1]
    /\ result.type = "LoadError"
    /\ result.name # selected[1]

\* C2: in create, a resolved name with zero declared schedules is skipped under
\* --all (createJobs goes only to the names that declare a schedule, and the
\* command succeeds when no handler call fails); without --all it is fatal with
\* NoScheduleFound for that name.
C2_EmptyScheduleSkipOrFatal ==
    command = "create" =>
      /\ ("--all" \in args /\ pc \in {"create_dispatch", "done"}
            /\ \A i \in 1..Len(selected) : Resolves(selected[i]))
         => /\ NameList(allJobs) = SelectSeq(selected, LAMBDA n : DeclaredCount(n) > 0)
            /\ \A i \in 1..Len(calls) :
                  calls[i].op = "createJobs" => DeclaredCount(calls[i].name) > 0
            /\ result.type # "NoScheduleFound"
            /\ (pc = "done" /\ \A i \in 1..Len(calls) : calls[i].out = Nil)
               => /\ result = Nil
                  /\ NameList(CallsOf("createJobs")) = NameList(allJobs)
      /\ ("--all" \notin args /\ pc = "done"
            /\ Resolves(requested) /\ DeclaredCount(requested) = 0)
         => /\ result = Err("NoScheduleFound", requested)
            /\ calls = <<>>

\* create --all succeeded, a selected name declares nothing, another was dispatched
C2_Witness ==
    /\ command = "create" /\ "--all" \in args /\ pc = "done" /\ result = Nil
    /\ \E i \in 1..Len(selected) : Resolves(selected[i]) /\ DeclaredCount(selected[i]) = 0
    /\ Len(CallsOf("createJobs")) >= 1
    /\ Len(CallsOf("createJobs")) < Len(selected)

\* C3: every job passed to createJobs carries exactly the flags of its
\* declaration plus "no-start" when --no-start is given plus "reload" when
\* --reload is given: both when both are given, and never the one not given.
AddedFlags ==
    (IF "--no-start" \in args THEN {"no-start"} ELSE {}) \cup
    (IF "--reload" \in args THEN {"reload"} ELSE {})

C3_FlagPropagation ==
    command = "create" =>
      \A i \in 1..Len(calls) :
        calls[i].op = "createJobs" =>
          \A k \in 1..Len(calls[i].jobs) :
            LET job == calls[i].jobs[k]
            IN  job.flags =
                  defs[job.origin.name].schedules[job.origin.command].flags \cup AddedFlags

\* both options given, and a dispatched job kept the flag it was declared with
C3_Witness ==
    /\ command = "create" /\ {"--no-start", "--reload"} \subseteq args
    /\ \E i \in 1..Len(calls) :
         /\ calls[i].op = "createJobs"
         /\ \E k \in 1..Len(calls[i].jobs) :
              calls[i].jobs[k].flags = {"custom", "no-start", "reload"}

\* C4: in legacy remove, when every selected name resolves, removeJobs is
\* invoked once per selected name in list order whatever the earlier outcomes;
\* each removal still failing after its retry is logged, and the result is nil.
StillFailing == SelectSeq(calls, LAMBDA c : c.op = "retryElevated" /\ c.out # Nil)

C4_LegacyRemoveBestEffort ==
    (command = "remove" /\ "--legacy" \in args /\ pc # "start"
       /\ \A i \in 1..Len(selected) : Resolves(selected[i]))
    => /\ pc \in {"remove_legacy", "done"}
       /\ pc = "remove_legacy" => NameList(CallsOf("removeJobs")) = SubSeq(selected, 1, idx - 1)
       /\ pc = "done" => /\ NameList(CallsOf("removeJobs")) = selected
                         /\ result = Nil
       /\ [i \in 1..Len(ErrorsLogged) |-> ErrorsLogged[i].err]
            = [i \in 1..Len(StillFailing) |-> StillFailing[i].out]

\* the first removal failed for good, a later name was still removed, success
C4_Witness ==
    /\ command = "remove" /\ "--legacy" \in args /\ pc = "done" /\ result = Nil
    /\ Len(selected) >= 2
    /\ Len(calls) >= 3
    /\ calls[1].op = "removeJobs" /\ calls[1].out.type = "HandlerError"
    /\ calls[2].op = "retryElevated" /\ calls[2].out # Nil
    /\ calls[Len(calls)].op = "removeJobs" /\ calls[Len(calls)].out = Nil
    /\ Len(ErrorsLogged) = 1

\* C5: for an owner whose declared commands all are schedulable commands,
\* getRemovableScheduleJobs returns one schedule per schedulable command, no two
\* with the same origin: the declared schedules first, then one placeholder with
\* origin (name, command) per undeclared command, in SchedulableCommands order.
Undeclared(n) == SelectSeq(defs[n].commands, LAMBDA c : c \notin DeclaredCommands(n))

C5_RemoveSetShape ==
    \A x \in 1..Len(removeSets) :
      LET r == removeSets[x]
          n == requested
          d == DeclaredCount(n)
      IN  (r.err = Nil /\ DeclaredCommands(n) \subseteq Range(defs[n].commands))
          => /\ Len(r.schedules) = Len(defs[n].commands)
             /\ \A i, j \in 1..Len(r.schedules) :
                   i # j => r.schedules[i].origin # r.schedules[j].origin
             /\ {r.schedules[i].origin.command : i \in 1..Len(r.schedules)}
                   = Range(defs[n].commands)
             /\ \A i \in 1..d : r.schedules[i] \in {defs[n].schedules[c] : c \in DeclaredCommands(n)}
             /\ SubSeq(r.schedules, d + 1, Len(r.schedules))
                   = [i \in 1..Len(Undeclared(n)) |->
                        NewDefaultSchedule(ScheduleOrigin(n, Undeclared(n)[i]))]

\* one declared schedule, every other schedulable command got its placeholder
C5_Witness ==
    /\ command = "build" /\ Len(removeSets) >= 1
    /\ removeSets[1].err = Nil
    /\ DeclaredCommands(requested) = {Commands[1]}
    /\ defs[requested].commands = Commands
    /\ Len(removeSets[1].schedules) = Len(Commands)
    /\ removeSets[1].schedules[1].declared
    /\ \A i \in 2..Len(Commands) : ~removeSets[1].schedules[i].declared

\* C6 as stated: two calls of getRemovableScheduleJobs for the same name on an
\* unchanged configuration return the same schedules in the same order.
C6_SameOrderEveryCall ==
    \A x, y \in 1..Len(removeSets) : removeSets[x] = removeSets[y]

\* C6 amended: two such calls return the same error, lists of the same length
\* holding the same schedules, and the same placeholders in the same order after
\* the declared schedules; only the order of the declared schedules may differ.
C6_SameSchedulesEveryCall ==
    \A x, y \in 1..Len(removeSets) :
      LET a == removeSets[x]
          b == removeSets[y]
          d == DeclaredCount(requested)
      IN  /\ a.err = b.err
          /\ Len(a.schedules) = Len(b.schedules)
          /\ Range(a.schedules) = Range(b.schedules)
          /\ a.err = Nil =>
               /\ SubSeq(a.schedules, d + 1, Len(a.schedules))
                    = SubSeq(b.schedules, d + 1, Len(b.schedules))
               /\ Range(SubSeq(a.schedules, 1, d)) = Range(SubSeq(b.schedules, 1, d))

\* two calls listed the two declared schedules in different orders
C6_Witness ==
    /\ command = "build" /\ Len(removeSets) >= 2
    /\ removeSets[1].err = Nil
    /\ DeclaredCount(requested) >= 2
    /\ removeSets[1].schedules # removeSets[2].schedules
    /\ removeSets[1].schedules[1] = removeSets[2].schedules[2]

\* C7 as stated: with --all exactly profiles ++ groups (empty when both lists
\* are empty), without --all exactly [requestedName].
C7_SelectAsStated ==
    (command = "select" /\ pc = "done")
    => selected = IF "--all" \in args THEN profileNames \o groupNames ELSE <<requested>>

\* C7 amended: with --all, profiles ++ groups when that list is not empty and
\* [requestedName] when both lists are empty; without --all, [requestedName].
\* The result is never empty.
C7_SelectNeverEmpty ==
    (command = "select" /\ pc = "done")
    => /\ selected = IF "--all" \in args /\ Len(profileNames) + Len(groupNames) > 0
                     THEN profileNames \o groupNames
                     ELSE <<requested>>
       /\ Len(selected) >= 1

\* --all with no profile and no group: the requested name comes back
C7_Witness ==
    /\ command = "select" /\ pc = "done"
    /\ "--all" \in args
    /\ profileNames = <<>> /\ groupNames = <<>>
    /\ selected = <<requested>>

\* C8 as stated: every status execution that returns success has invoked
\* reportAllRecorded.
C8_CurrentAlwaysRuns ==
    (command = "status" /\ pc = "done" /\ result = Nil)
    => Len(CallsOf("reportAllRecorded")) >= 1

\* C8 amended: status without --legacy, and status --legacy --all once every
\* name resolved, invoke reportAllRecorded once with the profile filter as their
\* last handler operation; a legacy single-target status (--legacy without
\* --all) returns from the legacy branch and never invokes reportAllRecorded.
LegacySingle == "--legacy" \in args /\ "--all" \notin args
FilterWanted == IF "--all" \in args THEN "" ELSE requested

C8_CurrentRunsExceptLegacySingle ==
    command = "status" =>
      /\ LegacySingle => /\ CallsOf("reportAllRecorded") = <<>>
                         /\ pc # "status_current"
      /\ (~LegacySingle /\ pc = "done")
         => IF result.type \in {"ConfigError", "NotFound", "LoadError", "GroupNotFound"}
            THEN CallsOf("reportAllRecorded") = <<>>
            ELSE /\ Len(CallsOf("reportAllRecorded")) = 1
                 /\ CallsOf("reportAllRecorded")[1].name = FilterWanted
                 /\ \A i \in 1..Len(calls) :
                       calls[i].op = "reportStatus" =>
                         \E k \in (i + 1)..Len(calls) : calls[k].op = "reportAllRecorded"

\* a legacy single-target status reported its jobs and returned success
C8_Witness ==
    /\ command = "status" /\ LegacySingle /\ pc = "done" /\ result = Nil
    /\ Len(CallsOf("reportStatus")) = 1
    /\ CallsOf("reportAllRecorded") = <<>>

\* C9 as stated: remove --legacy also invokes removeAllRecorded before it returns.
C9_LegacyThenCurrent ==
    (command = "remove" /\ "--legacy" \in args /\ pc = "done" /\ result = Nil)
    => Len(CallsOf("removeAllRecorded")) >= 1

\* C9 amended: remove --legacy runs the legacy protocol only: it returns after
\* the per-name loop and never invokes removeAllRecorded.
C9_LegacyRemoveOnly ==
    (command = "remove" /\ "--legacy" \in args)
    => /\ CallsOf("removeAllRecorded") = <<>>
       /\ pc # "remove_current"
       /\ \A i \in 1..Len(calls) : calls[i].op \in {"removeJobs", "retryElevated"}

\* the legacy removals are done and the command returned
C9_Witness ==
    /\ command = "remove" /\ "--legacy" \in args /\ pc = "done" /\ result = Nil
    /\ Len(CallsOf("removeJobs")) >= 1
    /\ CallsOf("removeAllRecorded") = <<>>

\* C10: remove without --legacy loads no profile or group and invokes
\* removeAllRecorded exactly once, with filter "" under --all and the requested
\* name otherwise; a failure gets exactly one elevation retry, whose outcome is
\* the command's result.
C10_CurrentRemove ==
    (command = "remove" /\ "--legacy" \notin args)
    => /\ loaded = <<>> /\ selected = <<>> /\ sink = <<>>
       /\ pc # "done" => calls = <<>>
       /\ pc = "done" =>
            /\ Len(calls) \in {1, 2}
            /\ calls[1].op = "removeAllRecorded"
            /\ calls[1].name = FilterWanted
            /\ Len(calls) = 1 => calls[1].out = Nil /\ result = Nil
            /\ Len(calls) = 2 => /\ calls[1].out # Nil
                                 /\ calls[2].op = "retryElevated"
                                 /\ result = calls[2].out

\* remove --all failed, was retried once, and returned the retry's error
C10_Witness ==
    /\ command = "remove" /\ args = {"--all"} /\ pc = "done"
    /\ Len(calls) = 2
    /\ calls[1].name = ""
    /\ result = calls[2].out
    /\ result.type = "PermissionError"

\* ---------------------------------------------------------------- claims on run-schedule
RunDone == pc = "done" /\ command = "run-schedule"

HasToken == Len(ctx0.arguments) >= 1

Token == ctx0.arguments[1]

WellFormed == HasToken /\ \E i \in 1..Len(Token) : Token[i] = "@"

\* C11: run-schedule fails with a malformed-identity error exactly when there is no
\* argument or the first argument holds no "@"; otherwise the command is the text
\* before the first "@", the owner all the text after it, and the first argument is
\* taken off the argument list.
C11_SplitAtFirstSeparator ==
    RunDone =>
        /\ (result.type = "MalformedIdentity") <=> ~WellFormed
        /\ WellFormed =>
             \E i \in 1..Len(Token) :
                /\ Token[i] = "@"
                /\ \A j \in 1..(i - 1) : Token[j] # "@"
                /\ ctx.command = Text(SubSeq(Token, 1, i - 1))
                /\ ctx.profile = Text(SubSeq(Token, i + 1, Len(Token)))
                /\ ctx.schedule = Text(Token)
                /\ ctx.arguments = Tail(ctx0.arguments)

C11_Witness ==
    /\ RunDone /\ WellFormed
    /\ Token = <<Commands[1], "@", NameUniverse[1], "@", NameUniverse[2]>>
    /\ ctx.command = Commands[1]
    /\ ctx.profile = NameUniverse[1] \o "@" \o NameUniverse[2]
    /\ Len(ctx0.arguments) = 2 /\ Len(ctx.arguments) = 1

Overrides(c) == <<c.logTarget, c.commandOutput, c.stopOnBattery, c.lockWait, c.noLock>>

\* the owner named by the token exists and loads
OwnerLoads == WellFormed /\ IsKnown(ctx.profile) /\ defs[ctx.profile].load = "ok"

\* C12: when the owner exists but declares no schedule for the command, run-schedule
\* succeeds and leaves logTarget, commandOutput, stopOnBattery, lockWait and noLock
\* as they were; only command, owner and schedule identity are set.
C12_NoScheduleNoOverride ==
    (RunDone /\ OwnerLoads /\ ctx.command \notin DeclaredCommands(ctx.profile)) =>
        /\ result = Nil
        /\ Overrides(ctx) = Overrides(ctx0)
        /\ ctx.found = NoSchedule
        /\ ctx.schedule = Text(Token)

C12_Witness ==
    /\ RunDone /\ OwnerLoads
    /\ ctx0 = PresetContext(<<<<Commands[1], "@", NameUniverse[1]>>>>)
    /\ ctx.command = Commands[1]
    /\ DeclaredCommands(ctx.profile) = {Commands[2]}
    /\ defs[ctx.profile].schedules[Commands[2]].log = "job.log"
    /\ defs[ctx.profile].schedules[Commands[2]].lockMode = "default"
    /\ defs[ctx.profile].schedules[Commands[2]].lockWait = 5
    /\ result = Nil
    /\ ctx.logTarget = "cli.log" /\ ctx.lockWait = 7

\* the owner declares a schedule for the command of the token
ScheduleFound == RunDone /\ OwnerLoads /\ ctx.command \in DeclaredCommands(ctx.profile)

FoundSchedule == defs[ctx.profile].schedules[ctx.command]

\* C13: stopOnBattery becomes the threshold iff the found schedule sets a threshold
\* and ignoreOnBattery is not explicitly false; otherwise it becomes 100 iff
\* ignoreOnBattery is explicitly true; otherwise it stays as it was. A schedule with
\* ignoreOnBattery = true and nothing else set yields 100.
C13_BatteryPolicy ==
    ScheduleFound =>
        LET s == FoundSchedule
        IN  /\ ctx.found = s
            /\ (s.ignoreOnBatteryLessThan > 0 /\ s.ignoreOnBattery # "false")
                 => ctx.stopOnBattery = s.ignoreOnBatteryLessThan
            /\ (~(s.ignoreOnBatteryLessThan > 0 /\ s.ignoreOnBattery # "false")
                  /\ s.ignoreOnBattery = "true")
                 => ctx.stopOnBattery = 100
            /\ (~(s.ignoreOnBatteryLessThan > 0 /\ s.ignoreOnBattery # "false")
                  /\ s.ignoreOnBattery # "true")
                 => ctx.stopOnBattery = ctx0.stopOnBattery

C13_Witness ==
    /\ ScheduleFound
    /\ FoundSchedule.ignoreOnBattery = "true"
    /\ FoundSchedule.ignoreOnBatteryLessThan = 0
    /\ ctx0.stopOnBattery = 50
    /\ ctx.stopOnBattery = 100

\* C14: a found schedule with lock mode ignore sets noLock and leaves lockWait as it
\* was whatever its wait; one with lock mode default takes its wait over iff the
\* wait is > 0 and leaves noLock as it was.
C14_LockPolicy ==
    ScheduleFound =>
        LET s == FoundSchedule
        IN  /\ s.lockMode = "ignore" =>
                 ctx.noLock = TRUE /\ ctx.lockWait = ctx0.lockWait
            /\ s.lockMode = "default" =>
                 /\ ctx.noLock = ctx0.noLock
                 /\ s.lockWait > 0 => ctx.lockWait = s.lockWait
                 /\ ~(s.lockWait > 0) => ctx.lockWait = ctx0.lockWait

C14_Witness ==
    /\ ScheduleFound
    /\ FoundSchedule.lockMode = "ignore" /\ FoundSchedule.lockWait = 5
    /\ ctx0.noLock = FALSE /\ ctx0.lockWait = 0
    /\ ctx.noLock = TRUE /\ ctx.lockWait = 0

\* ---------------------------------------------------------------- claims on dispatch
\* the selected names that declare at least one schedule, in selection order
Pending == SelectSeq(selected, LAMBDA n : DeclaredCount(n) > 0)

\* C15: whenever create returns success, createJobs has been invoked, in selection
\* order, for every selected name with at least one declared schedule, also after
\* a createJobs call failed and its elevation retry succeeded.
C15_SuccessMeansAllDispatched ==
    (command = "create" /\ pc = "done" /\ result = Nil)
    => NameList(CallsOf("createJobs")) = Pending

\* job j of call c is a schedule the configuration declares for the name of c
DeclaredJob(c, j) ==
    LET job == c.jobs[j]
    IN  /\ job.declared
        /\ job.origin.name = c.name
        /\ IsKnown(c.name)
        /\ job.origin.command \in DeclaredCommands(c.name)
        /\ job.origin.command \in Range(defs[c.name].commands)
        /\ defs[c.name].schedules[job.origin.command].flags \subseteq job.flags
        /\ [job EXCEPT !.flags = {}] =
              [defs[c.name].schedules[job.origin.command] EXCEPT !.flags = {}]

\* C16: every job passed to createJobs is a declared schedule of the name it is
\* dispatched for, with a command its owner can schedule; a synthesized placeholder
\* is passed to removeJobs only.
C16_CreateDispatchesDeclaredOnly ==
    \A i \in 1..Len(calls) :
        /\ calls[i].op = "createJobs" =>
             /\ calls[i].name \in Range(selected)
             /\ \A j \in 1..Len(calls[i].jobs) : DeclaredJob(calls[i], j)
        /\ (\E j \in 1..Len(calls[i].jobs) : ~calls[i].jobs[j].declared) =>
             calls[i].op = "removeJobs"

\* create dispatched both schedules of an owner that could schedule more commands
C16_Witness ==
    /\ command = "create" /\ pc = "done" /\ result = Nil
    /\ \E i \in 1..Len(calls) :
         /\ calls[i].op = "createJobs"
         /\ Len(calls[i].jobs) = 2
         /\ Len(calls[i].jobs) < Len(defs[calls[i].name].commands)

\* position in the selection of the first name that fails to resolve
FirstUnresolved == CHOOSE i \in 1..Len(selected) :
    ~Resolves(selected[i]) /\ \A j \in 1..(i - 1) : Resolves(selected[j])

\* C17: in legacy remove, when the k-th selected name fails to resolve, the command
\* returns that name's error at once; removeJobs is invoked for the names before
\* the k-th, in order, and never for the k-th or a later one.
C17_LegacyRemoveStopsAtUnresolved ==
    (command = "remove" /\ "--legacy" \in args /\ pc # "start"
       /\ \E i \in 1..Len(selected) : ~Resolves(selected[i]))
    => /\ pc \in {"remove_legacy", "done"}
       /\ pc = "remove_legacy" =>
            /\ idx <= FirstUnresolved
            /\ NameList(CallsOf("removeJobs")) = SubSeq(selected, 1, idx - 1)
       /\ pc = "done" =>
            /\ result = ResolutionError(selected[FirstUnresolved])
            /\ NameList(CallsOf("removeJobs")) = SubSeq(selected, 1, FirstUnresolved - 1)

\* the first name was removed, the second failed to load, remove returned its error
C17_Witness ==
    /\ command = "remove" /\ "--legacy" \in args /\ pc = "done"
    /\ Len(selected) >= 2
    /\ Resolves(selected[1]) /\ ~Resolves(selected[2])
    /\ NameList(CallsOf("removeJobs")) = <<selected[1]>>
    /\ result = Err("LoadError", selected[2])

\* the names among the first k selected that declare at least one schedule
PendingAmong(k) == SelectSeq(SubSeq(selected, 1, k), LAMBDA n : DeclaredCount(n) > 0)

\* the outcome of the last handler operation, after its retry if it had one
LastOutcome == calls[Len(calls)].out

LastOperation ==
    IF calls[Len(calls)].op = "retryElevated"
    THEN calls[Len(calls) - 1].op
    ELSE calls[Len(calls)].op

\* the retries of reportStatus calls that failed again
FailedReports ==
    IF pc = "done" /\ result # Nil
    THEN SubSeq(StillFailing, 1, Len(StillFailing) - 1)
    ELSE StillFailing

\* C18: in legacy status of all targets, when every selected name resolves, a name
\* without schedules gets no reportStatus call, every name with a schedule gets one
\* whatever the earlier reports did (a report failing after its retry is logged), and
\* the result is the outcome of the current-protocol report made after the loop.
C18_LegacyStatusAllKeepsGoing ==
    (command = "status" /\ "--legacy" \in args /\ "--all" \in args /\ pc # "start"
       /\ \A i \in 1..Len(selected) : Resolves(selected[i]))
    => /\ pc \in {"status_all", "status_current", "done"}
       /\ pc = "status_all" =>
            NameList(CallsOf("reportStatus")) = PendingAmong(idx - 1)
       /\ pc \in {"status_current", "done"} =>
            NameList(CallsOf("reportStatus")) = Pending
       /\ pc = "status_current" => CallsOf("reportAllRecorded") = <<>>
       /\ pc = "done" =>
            /\ Len(CallsOf("reportAllRecorded")) = 1
            /\ LastOperation = "reportAllRecorded"
            /\ result = LastOutcome
       /\ [i \in 1..Len(ErrorsLogged) |-> ErrorsLogged[i].err]
            = [i \in 1..Len(FailedReports) |-> FailedReports[i].out]

\* a name without schedules was passed over, the first report failed for good, the
\* second name was still reported and the command succeeded
C18_Witness ==
    /\ command = "status" /\ "--legacy" \in args /\ "--all" \in args /\ pc = "done"
    /\ Len(selected) = 3
    /\ \A i \in 1..Len(selected) : Resolves(selected[i])
    /\ DeclaredCount(selected[1]) = 0
    /\ Len(CallsOf("reportStatus")) = 2
    /\ CallsOf("reportStatus")[1].out # Nil
    /\ Len(ErrorsLogged) = 1
    /\ result = Nil

IsHandlerCall(c) == c.op # "retryElevated"

\* C19: every handler call that fails is followed by exactly one retryElevated, never
\* by a second; a handler call that succeeds is followed by none.
C19_OneRetryPerFailure ==
    \A i \in 1..Len(calls) :
        /\ (IsHandlerCall(calls[i]) /\ calls[i].out # Nil) =>
             /\ i < Len(calls)
             /\ ~IsHandlerCall(calls[i + 1])
             /\ calls[i + 1].name = calls[i].name
             /\ (i + 2 <= Len(calls)) => IsHandlerCall(calls[i + 2])
        /\ (IsHandlerCall(calls[i]) /\ calls[i].out = Nil /\ i < Len(calls)) =>
             IsHandlerCall(calls[i + 1])
        /\ ~IsHandlerCall(calls[i]) =>
             i > 1 /\ IsHandlerCall(calls[i - 1]) /\ calls[i - 1].out # Nil

\* a removal failed, its one retry failed too, and the next name was removed
C19_Witness ==
    /\ command = "remove" /\ "--legacy" \in args /\ pc = "done"
    /\ Len(calls) = 3
    /\ calls[1].op = "removeJobs" /\ calls[1].out # Nil
    /\ calls[2].op = "retryElevated" /\ calls[2].out # Nil
    /\ calls[3].op = "removeJobs" /\ calls[3].out = Nil

\* ---------------------------------------------------------------- claims on owner resolution
\* the owner name written in the token: the pieces after its first "@"
TokenOwner ==
    LET k == CHOOSE i \in 1..Len(Token) :
                 Token[i] = "@" /\ \A j \in 1..(i - 1) : Token[j] # "@"
    IN  Text(SubSeq(Token, k + 1, Len(Token)))

\* the name whose owner is looked up, by the rehydrator or by the job-set builder
OwnerAsked == IF command = "run-schedule" THEN TokenOwner ELSE requested

OwnerLookedUp ==
    /\ pc = "done"
    /\ command \in {"run-schedule", "resolve"}
    /\ command = "run-schedule" => WellFormed
    /\ command = "resolve" => globalOk

\* C20: the job-set builder and the rehydrator look a name up among the profiles
\* before the groups: a name that is both is loaded as a profile and its group is
\* never loaded; a name that is neither gives NotFound carrying that name and
\* nothing is loaded.
C20_ProfilesBeforeGroups ==
    OwnerLookedUp =>
        LET n == OwnerAsked
        IN  /\ (n \in Range(profileNames) /\ n \in Range(groupNames)) =>
                 loaded = <<[kind |-> "profile", name |-> n]>>
            /\ (n \in Range(profileNames)) =>
                 \A i \in 1..Len(loaded) : loaded[i].kind # "group"
            /\ (n \notin Range(profileNames) /\ n \in Range(groupNames)) =>
                 loaded = <<[kind |-> "group", name |-> n]>>
            /\ ~IsKnown(n) =>
                 result = Err("NotFound", n) /\ loaded = <<>>

\* the rehydrator loaded a name that is both a profile and a group as a profile
C20_Witness ==
    /\ OwnerLookedUp /\ command = "run-schedule"
    /\ OwnerAsked \in Range(profileNames) /\ OwnerAsked \in Range(groupNames)
    /\ loaded = <<[kind |-> "profile", name |-> OwnerAsked]>>
    /\ result = Nil

\* the job-set builder did the same
C20_WitnessBuilder ==
    /\ OwnerLookedUp /\ command = "resolve"
    /\ requested \in Range(profileNames) /\ requested \in Range(groupNames)
    /\ loaded = <<[kind |-> "profile", name |-> requested]>>

====
